---- MODULE Spec2Model ----
(***************************************************************************)
(* Model of src/app.py: the debt form handler `index` (amortization        *)
(* simulator, chart payloads, debt context appended to the conversation    *)
(* history).                                                               *)
(*                                                                         *)
(* Numbers.  Python floats are modelled in fixed point: a money amount is  *)
(* an integer number of units, 1000 units to the cent (1e-5 dollar), and   *)
(* an interest rate is an integer number of hundredths of a percent.  A    *)
(* product is rounded to the nearest unit.  The float NaN, which float()   *)
(* accepts ("nan"), is a distinguished value: every comparison with it is  *)
(* false and every sum, difference or product with it is NaN, as in        *)
(* IEEE 754.  Infinities are not modelled.                                 *)
(***************************************************************************)
EXTENDS Integers, Sequences, FiniteSets, TLC

\* conversation_history: the global list of line 65
\* request:            the request being answered (method and form lists)
\* chart_data, pie_chart_data: what index hands to the template
\* balances_over_time:  the raw trajectories index computed for the request
\* sim:                the loop of lines 789-810 for one debt
\* calls:              the locals and position of each call of index in flight
\* model:              whether lines 15-26 configured the generative model
VARIABLES conversation_history, request, chart_data, pie_chart_data,
          balances_over_time, sim, calls, model

vars == <<conversation_history, request, chart_data, pie_chart_data,
          balances_over_time, sim, calls, model>>

----------------------------------------------------------------------------
(* Fixed-point representation of floats                                    *)

\* one cent, the resolution of round(x, 2)
Cent == 1000

Dollar == 100 * Cent

\* float('nan')
NaN == -2000000000

IsNaN(x) == x = NaN

\* a > b on floats: false when either side is NaN
Gt(a, b) == ~IsNaN(a) /\ ~IsNaN(b) /\ a > b

\* a < b on floats
Lt(a, b) == ~IsNaN(a) /\ ~IsNaN(b) /\ a < b

\* a >= b on floats
Ge(a, b) == ~IsNaN(a) /\ ~IsNaN(b) /\ a >= b

\* a + b on floats
Add(a, b) == IF IsNaN(a) \/ IsNaN(b) THEN NaN ELSE a + b

\* a - b on floats
Sub(a, b) == IF IsNaN(a) \/ IsNaN(b) THEN NaN ELSE a - b

\* Python max(a, b): keeps a unless b > a
PyMax(a, b) == IF Gt(b, a) THEN b ELSE a

\* x * n / d rounded to the nearest unit, computed without leaving 32 bits
MulDiv(x, n, d) ==
    LET q == x \div d
        r == x % d
    IN  q * n + ((r * n + d \div 2) \div d)

\* round(x, 2): nearest cent, ties to the even cent
Round2(x) ==
    IF IsNaN(x) THEN NaN
    ELSE LET q == x \div Cent
             r == x % Cent
         IN  IF 2 * r > Cent \/ (2 * r = Cent /\ q % 2 = 1)
             THEN (q + 1) * Cent
             ELSE q * Cent

----------------------------------------------------------------------------
(* The per-debt simulation, lines 776-810                                  *)

\* denominator of m_rate: r is in hundredths of a percent, m_rate = r/100/100/12
RateDen == 120000

month_limit == 720

\* p * r with the annual rate, not divided by 12
MulRate_Annual(p, m_rate) ==
    IF IsNaN(p) THEN NaN ELSE MulDiv(p, m_rate, 10000)

\* p * m_rate
MulRate(p, m_rate) == IF IsNaN(p) THEN NaN ELSE MulDiv(p, m_rate, RateDen)

\* min_required_payment * 1.01
Times1001_Percent(x) == IF IsNaN(x) THEN NaN ELSE x + MulDiv(x, 1, 100)

\* min_required_payment * 1.001
Times1001(x) == IF IsNaN(x) THEN NaN ELSE x + MulDiv(x, 1, 1000)

\* the floor of a rate-free debt taken as one dollar instead of one cent
min_required_payment_Dollar(p, m_rate) ==
    IF m_rate > 0 THEN MulRate(p, m_rate) ELSE Dollar

min_required_payment(p, m_rate) ==
    IF m_rate > 0 THEN MulRate(p, m_rate) ELSE Cent

\* the payment as provided, never raised above the interest
actual_pay_NoFloor(p0, m_rate, pay) == pay

actual_pay(p0, m_rate, pay) ==
    PyMax(pay, Times1001(min_required_payment(p0, m_rate)))

\* bal[-k]
FromEnd(bal, k) == bal[Len(bal) - k + 1]

\* bal[-1] >= bal[-11] * 0.9999: the balance ten months earlier
NotDecreasing_TenMonths(bal) ==
    LET b1  == FromEnd(bal, 1)
        b11 == FromEnd(bal, 11)
    IN  /\ ~IsNaN(b1) /\ ~IsNaN(b11)
        /\ b11 - b1 <= b11 \div 10000

\* bal[-1] >= bal[-10] * 0.9999
NotDecreasing(bal) ==
    LET b1  == FromEnd(bal, 1)
        b10 == FromEnd(bal, 10)
    IN  /\ ~IsNaN(b1) /\ ~IsNaN(b10)
        /\ b10 - b1 <= b10 \div 10000

\* the safety break of line 804
Stagnant(bal, current_month) ==
    current_month > 12 /\ Len(bal) > 10 /\ NotDecreasing(bal)

\* the safety break stops the loop without filling bal
FillToLimit_NoFill(bal) == bal

\* bal filled up to month_limit entries, the entry of month 0 not counted
FillToLimit_OneShort(bal) ==
    IF Len(bal) < month_limit
    THEN [i \in 1..month_limit |->
             IF i <= Len(bal) THEN bal[i] ELSE bal[Len(bal)]]
    ELSE bal

\* lines 807-809: fill bal with its last value up to month_limit + 1 entries
FillToLimit(bal) ==
    IF Len(bal) < month_limit + 1
    THEN [i \in 1..(month_limit + 1) |->
             IF i <= Len(bal) THEN bal[i] ELSE bal[Len(bal)]]
    ELSE bal

\* the loop entered with an empty bal, the balance of month 0 not recorded
LoopInit_NoMonthZero(p0, r, pay) ==
    [p0 |-> p0, pay |-> pay, m_rate |-> r,
     actual_pay |-> actual_pay(p0, r, pay),
     p |-> p0, bal |-> <<>>, current_month |-> 0,
     iterations |-> 0, stopped |-> FALSE, pc |-> "loop"]

\* lines 776-787: the state of the loop when it is first tested
LoopInit(p0, r, pay) ==
    [p0 |-> p0, pay |-> pay, m_rate |-> r,
     actual_pay |-> actual_pay(p0, r, pay),
     p |-> p0, bal |-> <<Round2(p0)>>, current_month |-> 0,
     iterations |-> 0, stopped |-> FALSE, pc |-> "loop"]

\* the loop test without the month limit
LoopCond_NoLimit(s) == Gt(s.p, Cent)

\* line 789
LoopCond(s) == Gt(s.p, Cent) /\ s.current_month < month_limit

\* one iteration that takes the whole payment off the balance, interest
\* forgotten
LoopBody_NoInterest(s) ==
    LET interest == MulRate(s.p, s.m_rate)
        payment_this_month ==
            IF Lt(s.p, s.actual_pay) THEN Add(s.p, interest) ELSE s.actual_pay
        principal_paid == payment_this_month
        p1 == PyMax(Sub(s.p, principal_paid), 0)
        bal1 == Append(s.bal, Round2(p1))
        month1 == s.current_month + 1
        fire == Stagnant(bal1, month1)
    IN  [s EXCEPT !.p = IF fire THEN 0 ELSE p1,
                  !.bal = IF fire THEN FillToLimit(bal1) ELSE bal1,
                  !.current_month = month1,
                  !.iterations = s.iterations + 1,
                  !.stopped = fire]

\* lines 790-810: one iteration of the loop
LoopBody(s) ==
    LET interest == MulRate(s.p, s.m_rate)
        payment_this_month ==
            IF Lt(s.p, s.actual_pay) THEN Add(s.p, interest) ELSE s.actual_pay
        principal_paid == Sub(payment_this_month, interest)
        p1 == PyMax(Sub(s.p, principal_paid), 0)
        bal1 == Append(s.bal, Round2(p1))
        month1 == s.current_month + 1
        fire == Stagnant(bal1, month1)
    IN  [s EXCEPT !.p = IF fire THEN 0 ELSE p1,
                  !.bal = IF fire THEN FillToLimit(bal1) ELSE bal1,
                  !.current_month = month1,
                  !.iterations = s.iterations + 1,
                  !.stopped = fire]

RECURSIVE RunFor(_, _)
\* at most n iterations of the loop, evaluated by halves to keep the
\* evaluation shallow
RunFor(s, n) ==
    IF n = 0 \/ ~LoopCond(s) THEN s
    ELSE IF n = 1 THEN LoopBody(s)
    ELSE RunFor(RunFor(s, n \div 2), n - n \div 2)

RECURSIVE RunLoop(_)
\* lines 789-810: the loop, run until its test fails
RunLoop(s) == IF LoopCond(s) THEN RunLoop(RunFor(s, 64))
              ELSE [s EXCEPT !.pc = "done"]

\* the trajectory bal of one debt
Simulate(p0, r, pay) == RunLoop(LoopInit(p0, r, pay)).bal

\* lines 790-801: one iteration of the loop with the safety break of lines
\* 803-810 taken out
LoopBodyUnguarded(s) ==
    LET interest == MulRate(s.p, s.m_rate)
        payment_this_month ==
            IF Lt(s.p, s.actual_pay) THEN Add(s.p, interest) ELSE s.actual_pay
        principal_paid == Sub(payment_this_month, interest)
        p1 == PyMax(Sub(s.p, principal_paid), 0)
    IN  [s EXCEPT !.p = p1,
                  !.bal = Append(s.bal, Round2(p1)),
                  !.current_month = s.current_month + 1,
                  !.iterations = s.iterations + 1]

RECURSIVE RunForUnguarded(_, _)
\* at most n iterations of the loop without the safety break
RunForUnguarded(s, n) ==
    IF n = 0 \/ ~LoopCond(s) THEN s
    ELSE IF n = 1 THEN LoopBodyUnguarded(s)
    ELSE RunForUnguarded(RunForUnguarded(s, n \div 2), n - n \div 2)

\* lines 776-801: the debt simulated without the safety break, over the
\* whole horizon
SimulateUnguarded(p0, r, pay) ==
    RunForUnguarded(LoopInit(p0, r, pay), month_limit)

----------------------------------------------------------------------------
(* The form handler index, lines 732-883                                   *)

None == [none |-> TRUE]

\* A form field is a string: a decimal literal, "nan", or other text.
Num(v) == [kind |-> "num", val |-> v]

NanText == [kind |-> "nan", val |-> 0]

BadText == [kind |-> "text", val |-> 0]

\* float(s) with a lenient parser that never raises
FloatRaises_Lenient(f) == FALSE

\* float(s) raises ValueError
FloatRaises(f) == f.kind = "text"

\* float(s)
Float(f) == IF f.kind = "nan" THEN NaN ELSE f.val

\* isinstance(val, (int, float)): true of every parsed value, NaN included
IsNumber(x) == x \in Int

\* line 748: float(r)/100 if float(r) >= 0 else 0
ParseRate(f) == IF Ge(Float(f), 0) THEN Float(f) ELSE 0

\* line 748: the result is a float only on the first branch (else the int 0)
RateIsFloat(f) == Ge(Float(f), 0)

Indices(seq) == 1..Len(seq)

RECURSIVE SelectIdx(_, _, _)
\* the indices i in lo..hi that satisfy keep, in increasing order
SelectIdx(lo, hi, keep) ==
    IF lo > hi THEN <<>>
    ELSE IF keep[lo] THEN <<lo>> \o SelectIdx(lo + 1, hi, keep)
         ELSE SelectIdx(lo + 1, hi, keep)

RECURSIVE MaxLen(_, _)
\* line 812: max(max_months, len(bal)) over the first k trajectories
MaxLen(bals, k) ==
    IF k = 0 THEN 0
    ELSE LET m == MaxLen(bals, k - 1)
         IN  IF Len(bals[k]) > m THEN Len(bals[k]) ELSE m

\* Pad with the padding value 0 instead of the trajectory's last value
Pad_Zero(bal, max_months) ==
    IF max_months > Len(bal)
    THEN [i \in 1..max_months |-> IF i <= Len(bal) THEN bal[i] ELSE 0]
    ELSE bal

\* lines 819-822: bal + [last_val] * padding_needed
Pad(bal, max_months) ==
    LET padding_needed == max_months - Len(bal)
        last_val == IF Len(bal) > 0 THEN bal[Len(bal)] ELSE 0
    IN  IF padding_needed > 0
        THEN [i \in 1..max_months |->
                 IF i <= Len(bal) THEN bal[i] ELSE last_val]
        ELSE bal

\* lines 745-752: the try block raises before any chart is computed
ParseFails(form) ==
    \/ \E i \in Indices(form.principal) : FloatRaises(form.principal[i])
    \/ \E i \in Indices(form.rate) : FloatRaises(form.rate[i])
    \/ \E i \in Indices(form.payment) : FloatRaises(form.payment[i])
    \/ ~(/\ Len(form.name) = Len(form.principal)
         /\ Len(form.principal) = Len(form.rate)
         /\ Len(form.rate) = Len(form.payment))

principals(form) == [i \in Indices(form.principal) |-> Float(form.principal[i])]

rates(form) == [i \in Indices(form.rate) |-> ParseRate(form.rate[i])]

payments(form) == [i \in Indices(form.payment) |-> Float(form.payment[i])]

\* lines 772 and 829-830: the debts that pass the isinstance test
valid_indices(form) ==
    SelectIdx(1, Len(form.name),
              [i \in Indices(form.name) |->
                  /\ IsNumber(principals(form)[i])
                  /\ IsNumber(rates(form)[i])
                  /\ IsNumber(payments(form)[i])])

\* every debt simulated with the payment of the first debt
RawBalances_FirstPayment(form) ==
    LET v == valid_indices(form)
    IN  [k \in Indices(v) |->
            Simulate(principals(form)[v[k]], rates(form)[v[k]],
                     payments(form)[v[1]])]

\* lines 770-813: one raw trajectory per debt that is not skipped
RawBalances(form) ==
    LET v == valid_indices(form)
    IN  [k \in Indices(v) |->
            Simulate(principals(form)[v[k]], rates(form)[v[k]],
                     payments(form)[v[k]])]

\* labels for the months elapsed only: one label short
months_labels_Elapsed(max_months) == [i \in 1..(max_months - 1) |-> i - 1]

\* line 825: list(range(max_months))
months_labels(max_months) == [i \in 1..max_months |-> i - 1]

\* a chart whose months are numbered on from the length of the conversation
\* history
ChartFrom_History(form, raw, line_chart_colors) ==
    LET max_months == MaxLen(raw, Len(raw))
        v == valid_indices(form)
        n == IF Len(v) < Len(raw) THEN Len(v) ELSE Len(raw)
    IN  [none |-> FALSE,
         months |-> [i \in 1..max_months |->
                        i - 1 + Len(conversation_history)],
         datasets |-> [i \in 1..n |->
                          [label |-> form.name[v[i]],
                           data |-> Pad(raw[i], max_months),
                           color |-> line_chart_colors[i]]]]

\* lines 816-840, from the trajectories raw of lines 770-814
ChartFrom(form, raw, line_chart_colors) ==
    LET max_months == MaxLen(raw, Len(raw))
        padded_balances == [k \in Indices(raw) |-> Pad(raw[k], max_months)]
        v == valid_indices(form)
        n == IF Len(v) < Len(padded_balances) THEN Len(v)
             ELSE Len(padded_balances)
    IN  [none |-> FALSE,
         months |-> months_labels(max_months),
         datasets |-> [i \in 1..n |->
                          [label |-> form.name[v[i]],
                           data |-> padded_balances[i],
                           color |-> line_chart_colors[i]]]]

\* lines 765-840
ChartData(form, line_chart_colors) ==
    ChartFrom(form, RawBalances(form), line_chart_colors)

\* lines 842-855
PieChartData(form, pie_colors) ==
    LET v == valid_indices(form)
    IN  IF Len(v) > 0
        THEN [none |-> FALSE,
              labels |-> [i \in Indices(v) |-> form.name[v[i]]],
              data |-> [i \in Indices(v) |-> principals(form)[v[i]]],
              colors |-> pie_colors]
        ELSE None

\* lines 755-763: the debts recorded for the history
submitted_debt_data(form) ==
    LET kept == SelectIdx(1, Len(form.name),
                    [i \in Indices(form.name) |->
                        form.name[i] # "" /\ RateIsFloat(form.rate[i])])
    IN  [k \in Indices(kept) |->
            [name |-> form.name[kept[k]],
             principal |-> principals(form)[kept[k]],
             rate |-> Float(form.rate[kept[k]]),
             payment |-> payments(form)[kept[k]]]]

FormTag == "[Debt data submitted via form]"

\* lines 859-866: the text built from the submitted debts; ":,.2f" rounds
\* principal and payment to cents, the rate is printed as it is
debt_context_string(submitted) ==
    [tag |-> FormTag,
     lines |-> [k \in Indices(submitted) |->
                   [name |-> submitted[k].name,
                    principal |-> Round2(submitted[k].principal),
                    rate |-> submitted[k].rate,
                    payment |-> Round2(submitted[k].payment)]]]

\* line 871: the history entry of the form
ContextEntry(form) ==
    [role |-> "user",
     parts |-> <<debt_context_string(submitted_debt_data(form))>>]

\* lines 858 and 870: the tests that guard the append
ShouldAppend(history, form) ==
    /\ Len(submitted_debt_data(form)) > 0
    /\ \/ Len(history) = 0
       \/ history[Len(history)].parts[1] # ContextEntry(form).parts[1]

\* lines 858-872
HistoryAfterForm(history, form) ==
    IF ShouldAppend(history, form)
    THEN Append(history, ContextEntry(form))
    ELSE history

\* get_random_color(), lines 68-69
Colors == {"rgb(0, 0, 0)", "rgb(255, 255, 255)"}

----------------------------------------------------------------------------
(* Form submissions                                                        *)

MaxHistory == 2

Debt(name, principal, rate, payment) ==
    [name |-> name, principal |-> principal, rate |-> rate,
     payment |-> payment]

\* 250 at 0%, paying 100: paid off in 3 months
Card == Debt("Card", Num(250 * Dollar), Num(0), Num(100 * Dollar))

\* 1000 at 0%, paying nothing: stagnates
Loan == Debt("Loan", Num(1000 * Dollar), Num(0), Num(0))

\* 1200 at 12%, paying 103
Store == Debt("Store", Num(1200 * Dollar), Num(1200), Num(103 * Dollar))

\* one cent
Tiny == Debt("Tiny", Num(Cent), Num(0), Num(Dollar))

\* principal "nan"
Ghost == Debt("Ghost", NanText, Num(1200), Num(50 * Dollar))

\* negative principal
Refund == Debt("Refund", Num(0 - 500 * Dollar), Num(1200), Num(50 * Dollar))

\* negative rate
Promo == Debt("Promo", Num(5 * Dollar), Num(0 - 300), Num(2 * Dollar))

\* negative payment
Gift == Debt("Gift", Num(1000 * Dollar), Num(0), Num(0 - 5 * Dollar))

\* unparsable payment
Typo == Debt("Typo", Num(250 * Dollar), Num(0), BadText)

\* no name
Anon == Debt("", Num(250 * Dollar), Num(0), Num(100 * Dollar))

Batches ==
    {<<>>, <<Card>>, <<Card, Loan>>, <<Store, Card>>, <<Tiny, Card>>,
     <<Card, Ghost>>, <<Refund, Card>>, <<Promo>>, <<Gift>>,
     <<Card, Typo>>, <<Anon>>}

\* which of the four parallel lists lost its last entry
Cuts == {"none", "name", "principal", "rate", "payment"}

DropLast(seq) == IF Len(seq) = 0 THEN seq ELSE SubSeq(seq, 1, Len(seq) - 1)

\* request.form.getlist for the four fields
FormOf(batch, cut) ==
    LET names == [i \in Indices(batch) |-> batch[i].name]
        ps == [i \in Indices(batch) |-> batch[i].principal]
        rs == [i \in Indices(batch) |-> batch[i].rate]
        pays == [i \in Indices(batch) |-> batch[i].payment]
    IN  [name |-> IF cut = "name" THEN DropLast(names) ELSE names,
         principal |-> IF cut = "principal" THEN DropLast(ps) ELSE ps,
         rate |-> IF cut = "rate" THEN DropLast(rs) ELSE rs,
         payment |-> IF cut = "payment" THEN DropLast(pays) ELSE pays]

Forms == {FormOf(b, c) : b \in Batches, c \in Cuts}

NoForm == FormOf(<<>>, "none")

\* the calls of index that may be in flight together
Calls == {"a", "b"}

\* the locals of index as lines 739-741 set them, before a request arrives
IdleCall ==
    [pc |-> "idle", form |-> NoForm, balances_over_time |-> <<>>,
     line_chart_colors |-> <<>>, chart_data |-> None,
     pie_chart_data |-> None]

Init ==
    /\ conversation_history = <<>>
    /\ request = [method |-> "none", form |-> NoForm]
    /\ chart_data = None
    /\ pie_chart_data = None
    /\ balances_over_time = <<>>
    /\ sim = [pc |-> "idle"]
    /\ calls = [c \in Calls |-> IdleCall]
    /\ model = TRUE

\* GET /
IndexGet ==
    /\ request' = [method |-> "GET", form |-> NoForm]
    /\ chart_data' = None
    /\ pie_chart_data' = None
    /\ balances_over_time' = <<>>
    /\ UNCHANGED <<conversation_history, sim, calls, model>>

\* POST / that records the debts in the history before it parses them
IndexPostErrorOf_RecordsFirst(form) ==
    /\ ParseFails(form)
    /\ request' = [method |-> "POST", form |-> form]
    /\ chart_data' = None
    /\ pie_chart_data' = None
    /\ balances_over_time' = <<>>
    /\ conversation_history' =
           Append(conversation_history,
                  [role |-> "user", parts |-> <<debt_context_string(<<>>)>>])
    /\ UNCHANGED <<sim, calls, model>>

\* POST / with this form, whose try block raises: lines 744-752, 874-879
IndexPostErrorOf(form) ==
    /\ ParseFails(form)
    /\ request' = [method |-> "POST", form |-> form]
    /\ chart_data' = None
    /\ pie_chart_data' = None
    /\ balances_over_time' = <<>>
    /\ UNCHANGED <<conversation_history, sim, calls, model>>

\* POST / with this form, whose try block completes: lines 744-872
IndexPostOkOf(form) ==
    /\ ~ParseFails(form)
    /\ request' = [method |-> "POST", form |-> form]
    /\ LET raw == RawBalances(form)
           n == Len(valid_indices(form))
       IN  /\ balances_over_time' = raw
           /\ \E line_chart_colors \in [1..n -> Colors],
                 pie_colors \in [1..n -> Colors] :
                 /\ chart_data' = ChartData(form, line_chart_colors)
                 /\ pie_chart_data' = PieChartData(form, pie_colors)
    /\ conversation_history' = HistoryAfterForm(conversation_history, form)
    /\ UNCHANGED <<sim, calls, model>>

\* POST / whose try block raises
IndexPostError ==
    \E form \in Forms :
        /\ ParseFails(form)
        /\ IndexPostErrorOf(form)

\* POST / whose try block completes
IndexPostOk ==
    /\ Len(conversation_history) < MaxHistory
    /\ \E form \in Forms : IndexPostOkOf(form)

Next == IndexGet \/ IndexPostError \/ IndexPostOk

Spec == Init /\ [][Next]_vars

----------------------------------------------------------------------------
(* The loop of one debt, one iteration at a time                           *)

\* parsed principals: 0, fractions of a cent, cents, dollars, negative, NaN
SimPrincipals ==
    {0, 400, Cent, 5 * Dollar, 100 * Dollar + 800, 250 * Dollar,
     1000 * Dollar, 1200 * Dollar, 2000 * Dollar, 10000 * Dollar,
     0 - 500 * Dollar, NaN}

\* parsed rates in hundredths of a percent: 0, 12%, 24%
SimRates == {0, 1200, 2400}

\* parsed payments
SimPayments ==
    {0, Cent, 2 * Cent, Dollar, 100 * Dollar, 103 * Dollar,
     200 * Dollar + 50 * Cent, 0 - 5 * Dollar, NaN}

InitSim ==
    /\ conversation_history = <<>>
    /\ request = [method |-> "none", form |-> NoForm]
    /\ chart_data = None
    /\ pie_chart_data = None
    /\ balances_over_time = <<>>
    /\ calls = [c \in Calls |-> IdleCall]
    /\ model = TRUE
    /\ \E p0 \in SimPrincipals, r \in SimRates, pay \in SimPayments :
           sim = LoopInit(p0, r, pay)

\* the loop test succeeds and the body runs once
LoopIter ==
    /\ sim.pc = "loop"
    /\ LoopCond(sim)
    /\ sim' = LoopBody(sim)
    /\ UNCHANGED <<conversation_history, request, chart_data,
                   pie_chart_data, balances_over_time, calls, model>>

\* the loop test fails
LoopExit ==
    /\ sim.pc = "loop"
    /\ ~LoopCond(sim)
    /\ sim' = [sim EXCEPT !.pc = "done"]
    /\ UNCHANGED <<conversation_history, request, chart_data,
                   pie_chart_data, balances_over_time, calls, model>>

NextSim == LoopIter \/ LoopExit

SpecSim == InitSim /\ [][NextSim]_vars

----------------------------------------------------------------------------
(* Calls of index in flight together, one step of a call at a time.  Only  *)
(* conversation_history is shared; everything else is local to the call.   *)

\* the forms submitted by the calls in flight
ConcForms ==
    {FormOf(<<Card>>, "none"), FormOf(<<Card, Loan>>, "none"),
     FormOf(<<Card, Typo>>, "none")}

\* balances_over_time kept in one place for all calls: a call reads what
\* another call in flight has stored there
LocalBalances_Shared(c) ==
    IF \E d \in Calls \ {c} : calls[d].pc \in {"chart", "pie", "history", "append"}
    THEN calls[CHOOSE d \in Calls \ {c} :
                   calls[d].pc \in {"chart", "pie", "history", "append"}]
             .balances_over_time
    ELSE calls[c].balances_over_time

\* line 767: balances_over_time is a local of the call
LocalBalances(c) ==
    calls[c].balances_over_time

InitConc ==
    /\ conversation_history = <<>>
    /\ request = [method |-> "none", form |-> NoForm]
    /\ chart_data = None
    /\ pie_chart_data = None
    /\ balances_over_time = <<>>
    /\ sim = [pc |-> "idle"]
    /\ calls = [c \in Calls |-> IdleCall]
    /\ model = TRUE

Shared ==
    <<request, chart_data, pie_chart_data, balances_over_time, sim, model>>

\* a POST / arrives: lines 739-743
Receive(c) ==
    /\ calls[c].pc \in {"idle", "done"}
    /\ Len(conversation_history) < MaxHistory
    /\ \E form \in ConcForms :
          calls' = [calls EXCEPT ![c] =
                       [IdleCall EXCEPT !.pc = "parse", !.form = form]]
    /\ UNCHANGED <<conversation_history, Shared>>

\* lines 744-763, and the except block of lines 874-879 when they raise
Parse(c) ==
    /\ calls[c].pc = "parse"
    /\ calls' = [calls EXCEPT ![c].pc =
                    IF ParseFails(calls[c].form) THEN "done" ELSE "simulate"]
    /\ UNCHANGED <<conversation_history, Shared>>

\* lines 765-814
SimulateDebts(c) ==
    /\ calls[c].pc = "simulate"
    /\ \E colors \in [1..Len(valid_indices(calls[c].form)) -> Colors] :
          calls' = [calls EXCEPT
                       ![c].balances_over_time = RawBalances(calls[c].form),
                       ![c].line_chart_colors = colors,
                       ![c].pc = "chart"]
    /\ UNCHANGED <<conversation_history, Shared>>

\* lines 816-840
BuildChart(c) ==
    /\ calls[c].pc = "chart"
    /\ calls' = [calls EXCEPT
                    ![c].chart_data =
                        ChartFrom(calls[c].form, LocalBalances(c),
                                  calls[c].line_chart_colors),
                    ![c].pc = "pie"]
    /\ UNCHANGED <<conversation_history, Shared>>

\* lines 842-855
BuildPie(c) ==
    /\ calls[c].pc = "pie"
    /\ \E pie_colors \in [1..Len(valid_indices(calls[c].form)) -> Colors] :
          calls' = [calls EXCEPT
                       ![c].pie_chart_data =
                           PieChartData(calls[c].form, pie_colors),
                       ![c].pc = "history"]
    /\ UNCHANGED <<conversation_history, Shared>>

\* lines 858-870: the tests on the shared history
CheckHistory(c) ==
    /\ calls[c].pc = "history"
    /\ calls' = [calls EXCEPT ![c].pc =
                    IF ShouldAppend(conversation_history, calls[c].form)
                    THEN "append" ELSE "done"]
    /\ UNCHANGED <<conversation_history, Shared>>

\* line 871
AppendHistory(c) ==
    /\ calls[c].pc = "append"
    /\ conversation_history' =
           Append(conversation_history, ContextEntry(calls[c].form))
    /\ calls' = [calls EXCEPT ![c].pc = "done"]
    /\ UNCHANGED Shared

NextConc ==
    \E c \in Calls :
        \/ Receive(c)
        \/ Parse(c)
        \/ SimulateDebts(c)
        \/ BuildChart(c)
        \/ BuildPie(c)
        \/ CheckHistory(c)
        \/ AppendHistory(c)

SpecConc == InitConc /\ [][NextConc]_vars

----------------------------------------------------------------------------
(* Form submissions and chat calls handled one after the other             *)

\* the longest history followed
MaxTurns == 3

\* a text that is not built from submitted debts, known by how it begins
Plain(opening) == [tag |-> opening, lines |-> <<>>]

\* text.startswith("[Debt data submitted via form]")
StartsWithFormTag(text) == text.tag = FormTag

\* the forms submitted between chat calls: one debt, two debts, a field that
\* does not parse
ChatForms ==
    {FormOf(<<Card>>, "none"), FormOf(<<Card, Loan>>, "none"),
     FormOf(<<Typo>>, "none")}

\* the texts typed into the chat: a question, and the debt context of a form
\* sent again as a message
ChatTexts ==
    {Plain("Which debt first?"),
     debt_context_string(submitted_debt_data(FormOf(<<Card>>, "none")))}

\* request.get_json(): nothing usable, a message that is not a string (its
\* startswith raises, as does a body that is not JSON), or a text
ChatData ==
    {[kind |-> "none", text |-> Plain("")],
     [kind |-> "not_text", text |-> Plain("")]}
    \cup {[kind |-> "text", text |-> t] : t \in ChatTexts}

\* model.generate_content and response.text: a reply, which is any text, or
\* an exception
Outcomes ==
    {[ok |-> FALSE, text |-> Plain("")]}
    \cup {[ok |-> TRUE, text |-> t] :
             t \in {Plain("Pay the card first.")} \cup ChatTexts}

\* the message is appended whatever the history ends with
AppendUserMessage_NoCheck(history, text) ==
    Append(history, [role |-> "user", parts |-> <<text>>])

\* lines 907-913
AppendUserMessage(history, text) ==
    IF ~StartsWithFormTag(text)
       \/ Len(history) = 0
       \/ history[Len(history)].parts[1] # text
    THEN Append(history, [role |-> "user", parts |-> <<text>>])
    ELSE history

\* lines 942-945: the except block
AfterChatError(history) ==
    LET n == Len(history)
    IN  IF n > 0 /\ history[n].role = "user"
           /\ ~StartsWithFormTag(history[n].parts[1])
        THEN SubSeq(history, 1, n - 1)
        ELSE IF n > 0 /\ history[n].role = "model"
        THEN SubSeq(history, 1, n - 1)
        ELSE history

\* the call is answered with an error status: lines 891-892, 896-897, 938-952
ChatFails(data, outcome) ==
    ~model \/ data.kind # "text" \/ ~outcome.ok

\* lines 887-954: conversation_history when chat returns
HistoryAfterChat(history, data, outcome) ==
    IF ~model \/ data.kind = "none" THEN history
    ELSE IF data.kind = "not_text" THEN AfterChatError(history)
    ELSE LET sent == AppendUserMessage(history, data.text)
         IN  IF outcome.ok
             THEN Append(sent, [role |-> "model", parts |-> <<outcome.text>>])
             ELSE AfterChatError(sent)

InitChat ==
    /\ conversation_history = <<>>
    /\ request = [method |-> "none", form |-> NoForm]
    /\ chart_data = None
    /\ pie_chart_data = None
    /\ balances_over_time = <<>>
    /\ sim = [pc |-> "idle"]
    /\ calls = [c \in Calls |-> IdleCall]
    /\ model \in BOOLEAN

\* POST / whose try block raises
FormError ==
    \E form \in ChatForms :
        /\ ParseFails(form)
        /\ IndexPostErrorOf(form)

\* POST / whose try block completes
FormOk ==
    \E form \in ChatForms :
        /\ Len(HistoryAfterForm(conversation_history, form)) <= MaxTurns
        /\ IndexPostOkOf(form)

\* POST /chat
Chat ==
    \E data \in ChatData, outcome \in Outcomes :
        LET after == HistoryAfterChat(conversation_history, data, outcome)
        IN  /\ Len(after) <= MaxTurns
            /\ conversation_history' = after
            /\ UNCHANGED <<request, chart_data, pie_chart_data,
                           balances_over_time, sim, calls, model>>

NextChat == FormError \/ FormOk \/ Chat

SpecChat == InitChat /\ [][NextChat]_vars

----------------------------------------------------------------------------
(* The conversation history (specifications Spec and SpecChat)             *)

\* C24: when a /chat call fails, the history after the call equals the
\* history before it: the message this call appended is removed and no
\* earlier entry is removed
C24_FailedChatRestoresHistory ==
    \A data \in ChatData, outcome \in Outcomes :
        ChatFails(data, outcome) =>
            HistoryAfterChat(conversation_history, data, outcome)
                = conversation_history

\* entries k and k + 1 are the same and begin with the form tag
SameContextTwice(k) ==
    /\ StartsWithFormTag(conversation_history[k].parts[1])
    /\ conversation_history[k + 1] = conversation_history[k]

\* C25 as stated: after any sequence of form submissions and chat calls
\* handled one after the other, the history never holds two adjacent
\* identical entries that begin with "[Debt data submitted via form]"
C25_NoAdjacentContexts ==
    \A k \in 1..(Len(conversation_history) - 1) : ~SameContextTwice(k)

\* C25 amended: the history never holds two adjacent identical entries of
\* role "user" that begin with "[Debt data submitted via form]"
C25_NoAdjacentUserContexts ==
    \A k \in 1..(Len(conversation_history) - 1) :
        SameContextTwice(k) => conversation_history[k].role # "user"

\* the debt context of a form was sent again as a chat message right after
\* the form: the reply follows the one context entry
C25_Witness ==
    /\ Len(conversation_history) = 3
    /\ conversation_history[1] = ContextEntry(FormOf(<<Card>>, "none"))
    /\ conversation_history[2].role = "model"
    /\ conversation_history[3] = ContextEntry(FormOf(<<Card>>, "none"))

\* C26: a form submission whose processing raises leaves the history as it
\* was before the call
C26_FailedFormKeepsHistory ==
    [][(request'.method = "POST" /\ ParseFails(request'.form))
           => conversation_history' = conversation_history]_vars

\* a form that does not parse was submitted after a form was recorded
C26_Witness ==
    /\ request.method = "POST"
    /\ ParseFails(request.form)
    /\ chart_data.none
    /\ Len(conversation_history) > 0

----------------------------------------------------------------------------
(* Properties of calls in flight together (specification SpecConc)         *)

\* the call has passed lines 816-840
ChartBuilt(c) == calls[c].pc \in {"pie", "history", "append", "done"}

\* the call has passed lines 842-855
PieBuilt(c) == calls[c].pc \in {"history", "append", "done"}

\* a chart without its display colors
Uncolored(chart) ==
    IF chart.none THEN chart
    ELSE [months |-> chart.months,
          datasets |-> [k \in Indices(chart.datasets) |->
                           [label |-> chart.datasets[k].label,
                            data |-> chart.datasets[k].data]]]

\* C16: two form submissions with the same debt list have the same months
\* list and the same dataset labels and data, display colors aside, whatever
\* was submitted before and whatever the conversation history holds
C16_SameDebtsSameChart ==
    \A c, d \in Calls :
        (ChartBuilt(c) /\ ChartBuilt(d) /\ calls[c].form = calls[d].form)
            => Uncolored(calls[c].chart_data) = Uncolored(calls[d].chart_data)

\* two submissions of the same single debt are charted in different colors
\* after another batch has been recorded in the history
C16_Witness ==
    /\ \A c \in Calls :
          /\ calls[c].pc = "done"
          /\ calls[c].form = FormOf(<<Card>>, "none")
          /\ ~calls[c].chart_data.none
    /\ calls["a"].line_chart_colors # calls["b"].line_chart_colors
    /\ Len(conversation_history) = 2
    /\ conversation_history[1] = ContextEntry(FormOf(<<Card, Loan>>, "none"))

\* the pie chart a call leaves is the one the form gives, colors aside
PieAsAlone(c) ==
    LET alone == PieChartData(calls[c].form, <<>>)
        pie == calls[c].pie_chart_data
    IN  IF alone.none THEN pie.none
        ELSE /\ ~pie.none
             /\ pie.labels = alone.labels
             /\ pie.data = alone.data

\* C17: under every interleaving of the steps of two calls, the line chart
\* and the pie chart of each call are those the same call produces when the
\* handler runs alone from the same form
C17_ChartsAsWhenAlone ==
    \A c \in Calls :
        IF ParseFails(calls[c].form)
        THEN calls[c].pc = "done" =>
                 (calls[c].chart_data.none /\ calls[c].pie_chart_data.none)
        ELSE /\ ChartBuilt(c) =>
                   calls[c].chart_data =
                       ChartData(calls[c].form, calls[c].line_chart_colors)
             /\ PieBuilt(c) => PieAsAlone(c)

\* both calls are between line 841 and line 855 with different batches: the
\* later of the two built its chart while the other was in flight
C17_Witness ==
    /\ calls["a"].pc = "pie"
    /\ calls["b"].pc = "pie"
    /\ calls["a"].form = FormOf(<<Card>>, "none")
    /\ calls["b"].form = FormOf(<<Card, Loan>>, "none")

----------------------------------------------------------------------------
(* Properties of a form submission (specification Spec)                    *)

Submitted == request.method = "POST"

Charted == ~chart_data.none

\* a field that is not a number, or parallel lists of different lengths
Malformed(form) ==
    \/ \E i \in Indices(form.principal) : form.principal[i].kind = "text"
    \/ \E i \in Indices(form.rate) : form.rate[i].kind = "text"
    \/ \E i \in Indices(form.payment) : form.payment[i].kind = "text"
    \/ Cardinality({Len(form.name), Len(form.principal), Len(form.rate),
                    Len(form.payment)}) > 1

ChartLabels == {chart_data.datasets[k].label : k \in Indices(chart_data.datasets)}

PieLabels ==
    IF pie_chart_data.none THEN {}
    ELSE {pie_chart_data.labels[k] : k \in Indices(pie_chart_data.labels)}

\* the longest raw trajectory of the batch
LongestRaw ==
    IF balances_over_time = <<>> THEN 0
    ELSE CHOOSE n \in {Len(balances_over_time[k]) :
                          k \in Indices(balances_over_time)} :
             \A k \in Indices(balances_over_time) :
                 Len(balances_over_time[k]) <= n

\* C1: after a successful form submission every dataset's data has the
\* length of the longest raw trajectory of the batch, starts with its own
\* raw trajectory, and every padding element equals the last raw value.
C1_PaddingInvariant ==
    (Submitted /\ Charted) =>
        /\ Len(chart_data.datasets) = Len(balances_over_time)
        /\ \A k \in Indices(chart_data.datasets) :
              LET data == chart_data.datasets[k].data
                  raw == balances_over_time[k]
              IN  /\ Len(data) = LongestRaw
                  /\ \A i \in Indices(raw) : data[i] = raw[i]
                  /\ \A i \in Indices(data) :
                        i > Len(raw) => data[i] = raw[Len(raw)]

\* a dataset was padded with a last raw value other than 0
C1_Witness ==
    /\ Submitted /\ Charted
    /\ \E k \in Indices(chart_data.datasets) :
          /\ Len(chart_data.datasets[k].data) > Len(balances_over_time[k])
          /\ balances_over_time[k][Len(balances_over_time[k])] # 0

\* C2: every trajectory in the output starts with the debt's principal
\* rounded to cents and has no element below 0.
C2_StartsAtPrincipalNonNegative ==
    (Submitted /\ Charted) =>
        \A k \in Indices(chart_data.datasets) :
            LET data == chart_data.datasets[k].data
            IN  /\ data[1] = Round2(pie_chart_data.data[k])
                /\ \A i \in Indices(data) : Ge(data[i], 0)

\* C6: a form with an unparsable numeric field or with lists of different
\* lengths produces neither a line chart nor a pie chart.
C6_MalformedBatchNoCharts ==
    (Submitted /\ Malformed(request.form)) =>
        (chart_data = None /\ pie_chart_data = None)

\* a form with an unparsable field was answered
C6_Witness ==
    /\ Submitted
    /\ \E i \in Indices(request.form.payment) :
          request.form.payment[i].kind = "text"
    /\ Len(request.form.name) = 2
    /\ chart_data = None

\* a form whose lists differ in length was answered
C6_WitnessMismatch ==
    /\ Submitted
    /\ Len(request.form.rate) < Len(request.form.name)
    /\ chart_data = None

\* debt i of the form has a NaN principal or payment
HasNaN(form, i) ==
    form.principal[i].kind = "nan" \/ form.payment[i].kind = "nan"

\* C7: a debt with a NaN field in a form that parses is skipped: it is in
\* neither chart, and the other debts are charted.
C7_NaNDebtSkipped ==
    (Submitted /\ ~Malformed(request.form)) =>
        /\ Charted
        /\ \A i \in Indices(request.form.name) :
              IF HasNaN(request.form, i)
              THEN request.form.name[i] \notin ChartLabels \cup PieLabels
              ELSE request.form.name[i] \in ChartLabels

\* debt i of the form has a negative principal, rate or payment
HasNegative(form, i) ==
    \/ form.principal[i].kind = "num" /\ form.principal[i].val < 0
    \/ form.rate[i].kind = "num" /\ form.rate[i].val < 0
    \/ form.payment[i].kind = "num" /\ form.payment[i].val < 0

\* C8: a debt with a negative principal, rate or payment is skipped: it is
\* in neither chart.
C8_NegativeDebtSkipped ==
    (Submitted /\ ~Malformed(request.form)) =>
        \A i \in Indices(request.form.name) :
            HasNegative(request.form, i) =>
                request.form.name[i] \notin ChartLabels \cup PieLabels

----------------------------------------------------------------------------
(* Properties of one debt's trajectory (specification SpecSim)             *)

Done == sim.pc = "done"

LastBal == sim.bal[Len(sim.bal)]

\* principal, rate and payment are numbers that are not negative
NonNegativeDebt == Ge(sim.p0, 0) /\ sim.m_rate >= 0 /\ Ge(sim.pay, 0)

C5_LoopBounded ==
    /\ [](sim.iterations <= month_limit /\ Len(sim.bal) <= month_limit + 1)
    /\ [][sim'.pc = "done" \/ sim'.iterations = sim.iterations + 1]_vars

\* a loop that was stopped by the month limit alone
C5_Witness ==
    /\ Done
    /\ sim.iterations = month_limit
    /\ ~sim.stopped
    /\ Gt(sim.p, Cent)

ZeroRateDebt == sim.m_rate = 0 /\ Gt(sim.p0, 0) /\ Gt(sim.pay, 0)

\* C9 as stated: at rate 0 the recorded balance falls by exactly the
\* minimum payment in every month but the last and by at most the minimum
\* payment in the last.
C9_FallsByPaymentEveryMonth ==
    (Done /\ ZeroRateDebt) =>
        \A k \in 1..(Len(sim.bal) - 1) :
            IF k < Len(sim.bal) - 1
            THEN sim.bal[k] - sim.bal[k + 1] = sim.pay
            ELSE sim.bal[k] - sim.bal[k + 1] <= sim.pay

\* principal and payment are whole numbers of cents
WholeCents == sim.p0 % Cent = 0 /\ sim.pay % Cent = 0

\* C9 amended: at rate 0, with a principal > 0 and a minimum payment of at
\* least 0.02 that are whole numbers of cents, the recorded balance falls in
\* every simulated month by exactly the minimum payment when it is at least
\* the payment and to 0 when it is below it, up to the month in which the
\* safety break fires; from then on the recorded balance stays flat.
C9_ZeroRateFalls ==
    (sim.m_rate = 0 /\ Gt(sim.p0, 0) /\ Ge(sim.pay, 2 * Cent) /\ WholeCents) =>
        /\ \A k \in 1..sim.iterations :
              LET balance == sim.p0 - (k - 1) * sim.pay
              IN  /\ sim.bal[k] = balance
                  /\ sim.bal[k + 1] =
                         IF balance >= sim.pay THEN balance - sim.pay ELSE 0
        /\ sim.stopped =>
              \A i \in (sim.iterations + 1)..Len(sim.bal) :
                  sim.bal[i] = sim.bal[sim.iterations + 1]

\* a rate-free debt paid off with a last payment below the minimum payment
C9_Witness ==
    /\ Done /\ sim.m_rate = 0 /\ Ge(sim.pay, 2 * Cent) /\ WholeCents
    /\ ~sim.stopped
    /\ sim.iterations >= 3
    /\ LastBal = 0
    /\ sim.bal[Len(sim.bal) - 1] < sim.pay
    /\ sim.bal[Len(sim.bal) - 1] > 0

\* a rate-free debt whose trajectory the safety break froze
C9_WitnessFrozen ==
    /\ Done /\ sim.m_rate = 0 /\ Ge(sim.pay, 2 * Cent) /\ WholeCents
    /\ sim.stopped

\* principal 10000, annual rate 24%, minimum payment 200.5
IsC10Debt ==
    /\ sim.p0 = 10000 * Dollar
    /\ sim.m_rate = 2400
    /\ sim.pay = 200 * Dollar + 50 * Cent

\* C10 as stated: the debt 10000 / 24% / 200.5 runs to the horizon and ends
\* in a flat tail of equal non-zero balances, within month_limit iterations.
C10_RunsToHorizonFlat ==
    (Done /\ IsC10Debt) =>
        /\ Len(sim.bal) = month_limit + 1
        /\ LastBal # 0
        /\ sim.bal[Len(sim.bal) - 1] = LastBal
        /\ sim.iterations <= month_limit

\* C10 amended: the debt 10000 / 24% / 200.5 is paid off: its trajectory
\* has 304 entries (months 0..303), falls in every month and ends at
\* exactly 0, the safety break never firing, after 303 iterations.
C10_PaidOffIn303 ==
    (Done /\ IsC10Debt) =>
        /\ Len(sim.bal) = 304
        /\ LastBal = 0
        /\ \A i \in 1..(Len(sim.bal) - 1) : sim.bal[i + 1] < sim.bal[i]
        /\ ~sim.stopped
        /\ sim.iterations = 303
        /\ sim.iterations <= month_limit

C10_Witness == Done /\ IsC10Debt /\ sim.actual_pay = sim.pay

----------------------------------------------------------------------------
(* The end-to-end example and the steps of the loop (specification SpecSim) *)

\* principal 1200, annual rate 12%, minimum payment 103
IsExampleDebt ==
    /\ sim.p0 = 1200 * Dollar
    /\ sim.m_rate = 1200
    /\ sim.pay = 103 * Dollar

\* C11: the debt 1200 / 12% / 103 has monthly rate 0.01, balance 1200 at
\* month 0, interest 12.00 and principal paid 91.00 in month 1, and balance
\* 1109.00 at month 1.
C11_ExampleFirstMonth ==
    IsExampleDebt =>
        /\ sim.m_rate * 100 = RateDen
        /\ sim.bal[1] = 1200 * Dollar
        /\ sim.iterations = 0 =>
              /\ MulRate(sim.p, sim.m_rate) = 12 * Dollar
              /\ sim.actual_pay - MulRate(sim.p, sim.m_rate) = 91 * Dollar
        /\ sim.iterations >= 1 => sim.bal[2] = 1109 * Dollar

\* month 1 of the example has been simulated
C11_Witness ==
    IsExampleDebt /\ sim.iterations = 1 /\ sim.p = 1109 * Dollar

\* C12 as stated: the debt 1200 / 12% / 103 reaches a balance <= 0.01 in
\* fewer than 13 months: at most 13 entries.
C12_ExampleUnder13Months ==
    (Done /\ IsExampleDebt) => (Len(sim.bal) <= 13 /\ LastBal <= Cent)

\* C12 amended: the debt 1200 / 12% / 103 still owes more than 0.01 at
\* month 12 and reaches balance 0 in month 13: 14 entries, months 0..13.
C12_ExamplePaidInMonth13 ==
    (Done /\ IsExampleDebt) =>
        /\ Len(sim.bal) = 14
        /\ sim.iterations = 13
        /\ sim.bal[13] > Cent
        /\ LastBal = 0

C12_Witness == Done /\ IsExampleDebt /\ ~sim.stopped /\ sim.p = 0

\* payment_this_month of the iteration about to run
PaymentThisMonth ==
    IF Lt(sim.p, sim.actual_pay)
    THEN Add(sim.p, MulRate(sim.p, sim.m_rate))
    ELSE sim.actual_pay

Looping == sim.pc = "loop" /\ LoopCond(sim)

\* C18: for a debt with principal > 0.01 the effective payment is
\* max(minPayment, 1.001 x interest-only) at a rate > 0 and at least 0.01 at
\* rate 0; in every iteration the payment exceeds the month's interest and
\* the unrounded balance strictly decreases.
C18_PaymentExceedsInterest ==
    Gt(sim.p0, Cent) =>
        /\ IF sim.m_rate > 0
           THEN /\ Ge(sim.actual_pay, sim.pay)
                /\ Ge(sim.actual_pay, Times1001(MulRate(sim.p0, sim.m_rate)))
                /\ sim.actual_pay \in
                       {sim.pay, Times1001(MulRate(sim.p0, sim.m_rate))}
           ELSE Ge(sim.actual_pay, Cent)
        /\ Looping =>
              /\ Gt(PaymentThisMonth, MulRate(sim.p, sim.m_rate))
              /\ Lt(LoopBody(sim).p, sim.p)

\* C19: in every simulated month the payment is at most balance + interest;
\* when the balance is below the effective payment the payment is exactly
\* balance + interest and the balance becomes 0; for a debt with
\* non-negative fields the clamp max(p, 0) changes nothing.
C19_NeverOverpays ==
    Looping =>
        LET interest == MulRate(sim.p, sim.m_rate)
            unclamped == Sub(sim.p, Sub(PaymentThisMonth, interest))
        IN  /\ Ge(Add(sim.p, interest), PaymentThisMonth)
            /\ Lt(sim.p, sim.actual_pay) =>
                  /\ PaymentThisMonth = Add(sim.p, interest)
                  /\ LoopBody(sim).p = 0
            /\ NonNegativeDebt => PyMax(unclamped, 0) = unclamped

\* bal[new] >= bal[old] * 0.9999 on recorded balances
WithinTenThousandth(old, new) ==
    /\ ~IsNaN(old) /\ ~IsNaN(new)
    /\ old - new <= old \div 10000

\* the recorded balance of month k
Recorded(k) == sim.bal[k + 1]

\* C20 as stated: the safety break fires at the end of month k exactly when
\* k > 12 and the recorded balance of month k is >= 0.9999 times the
\* recorded balance of month k - 10.
C20_FiresOnTenMonthsEarlier ==
    sim.iterations >= 1 =>
        LET k == sim.current_month
        IN  sim.stopped <=>
                (k > 12 /\ WithinTenThousandth(Recorded(k - 10), Recorded(k)))

\* C20 amended: the safety break fires at the end of month k exactly when
\* k > 12 and the recorded balance of month k is >= 0.9999 times the
\* recorded balance of month k - 9 (bal[-10], the tenth entry from the end).
C20_FiresOnNineMonthsEarlier ==
    sim.iterations >= 1 =>
        LET k == sim.current_month
        IN  sim.stopped <=>
                (k > 12 /\ WithinTenThousandth(Recorded(k - 9), Recorded(k)))

\* the break fired on a balance that fell by more than 0.01% in ten months
C20_Witness ==
    /\ sim.stopped
    /\ sim.current_month > 12
    /\ ~WithinTenThousandth(Recorded(sim.current_month - 10),
                            Recorded(sim.current_month))

\* C21: when the safety break fires at month k the loop stops at once and bal
\* has exactly 721 entries, every entry from index k through index 720 being
\* the balance recorded at month k
C21_FrozenToHorizon ==
    sim.stopped =>
        LET k == sim.current_month
        IN  /\ ~LoopCond(sim)
            /\ sim.iterations = k
            /\ Len(sim.bal) = 721
            /\ \A i \in k..720 : Recorded(i) = Recorded(k)

\* the break fired at month 13 on a balance that had fallen since month 0,
\* and the loop has been left
C21_Witness ==
    /\ Done
    /\ sim.stopped
    /\ sim.current_month = 13
    /\ Recorded(13) # Recorded(0)
    /\ Recorded(13) > 0

\* the debt of the loop pays off within the horizon when the safety break
\* is taken out
PaysOffUnguarded ==
    LET s == SimulateUnguarded(sim.p0, sim.m_rate, sim.pay)
    IN  ~IsNaN(s.p) /\ ~Gt(s.p, Cent)

\* C22: whenever the safety break freezes a trajectory, the same debt with
\* the same effective payment and without the break does not reach a balance
\* <= 0.01 within the 720 months
C22_FrozenOnlyIfNotConverging ==
    sim.stopped => ~PaysOffUnguarded

\* C23 as stated: the length of bal is the number of iterations executed
\* plus one, for every debt
C23_LengthIsIterationsPlusOne ==
    Len(sim.bal) = sim.iterations + 1

\* C23 amended: the length of bal is the number of iterations executed plus
\* one as long as the safety break has not fired, and 721 once it has
C23_LengthUnlessFrozen ==
    IF sim.stopped
    THEN Len(sim.bal) = 721
    ELSE Len(sim.bal) = sim.iterations + 1

\* a debt paid off in three iterations, and one frozen after thirteen
C23_Witness ==
    /\ Done
    /\ \/ ~sim.stopped /\ sim.iterations = 3 /\ Len(sim.bal) = 4
       \/ sim.stopped /\ sim.iterations = 13 /\ Len(sim.bal) = 721

----------------------------------------------------------------------------
(* The chart payloads of a form submission (specification Spec)            *)

\* C13: after a successful form submission the months list is 0, 1, ..., N
\* (months[i] = i counting from 0) and is as long as the data of every
\* dataset.
C13_MonthsMatchData ==
    (Submitted /\ Charted) =>
        /\ \A i \in Indices(chart_data.months) : chart_data.months[i] = i - 1
        /\ \A k \in Indices(chart_data.datasets) :
              Len(chart_data.datasets[k].data) = Len(chart_data.months)

\* two datasets charted over the full horizon
C13_Witness ==
    /\ Submitted /\ Charted
    /\ Len(chart_data.datasets) = 2
    /\ Len(chart_data.months) = month_limit + 1
    /\ chart_data.months[month_limit + 1] = month_limit

\* a debt whose principal, rate and payment are non-negative numbers
ValidDebt(form, i) ==
    /\ form.principal[i].kind = "num" /\ form.principal[i].val >= 0
    /\ form.rate[i].kind = "num" /\ form.rate[i].val >= 0
    /\ form.payment[i].kind = "num" /\ form.payment[i].val >= 0

\* the trajectory of debt i of the form
OwnTrajectory(form, i) ==
    Simulate(Float(form.principal[i]), ParseRate(form.rate[i]),
             Float(form.payment[i]))

\* C14: the datasets and the pie entries each list exactly the valid debts
\* in input order: the k-th label is the k-th valid debt's name, the k-th
\* data its trajectory, the k-th pie value its principal.
C14_ValidDebtsInOrder ==
    (Submitted /\ Charted) =>
        LET form == request.form
            v == SelectIdx(1, Len(form.name),
                     [i \in Indices(form.name) |-> ValidDebt(form, i)])
        IN  /\ Len(chart_data.datasets) = Len(v)
            /\ Len(v) > 0 <=> ~pie_chart_data.none
            /\ \A k \in Indices(v) :
                  /\ chart_data.datasets[k].label = form.name[v[k]]
                  /\ chart_data.datasets[k].data =
                         Pad(OwnTrajectory(form, v[k]), Len(chart_data.months))
                  /\ pie_chart_data.labels[k] = form.name[v[k]]
                  /\ pie_chart_data.data[k] = Float(form.principal[v[k]])

\* C15: a charted debt's series up to its own raw length is the trajectory
\* of its own principal, rate and payment, whatever the other debts of the
\* batch are; they only decide how many copies of its last value follow.
C15_OwnFieldsOnly ==
    (Submitted /\ Charted) =>
        /\ Len(chart_data.datasets) <= Len(request.form.name)
        /\ \A k \in Indices(chart_data.datasets) :
              \E i \in Indices(request.form.name) :
                  /\ request.form.name[i] = chart_data.datasets[k].label
                  /\ LET own == OwnTrajectory(request.form, i)
                         data == chart_data.datasets[k].data
                     IN  /\ Len(data) >= Len(own)
                         /\ data = Pad(own, Len(data))

\* a debt charted beside a debt with another payment and a longer trajectory
C15_Witness ==
    /\ Submitted /\ Charted
    /\ Len(chart_data.datasets) = 2
    /\ request.form.payment[1] # request.form.payment[2]
    /\ Len(balances_over_time[1]) < Len(balances_over_time[2])

====
